---- MODULE Spec2Model ----
(***************************************************************************)
(* InMemoryNoteStore of notes_backend/src/api/main.py and the endpoints    *)
(* that call it, as a state machine.  Worker threads invoke the endpoints; *)
(* every store method is a sequence of steps, one per statement, run       *)
(* between the acquisition and the release of the store's RLock.  Notes    *)
(* live in a heap of objects: the store's dict and the values handed to    *)
(* callers are references into that heap.                                  *)
(***************************************************************************)
EXTENDS Integers, Sequences, FiniteSets, TLC

\* Endpoint invocations explored when one worker serves the requests in turn.
MaxCalls == 3

\* Endpoint invocations explored when two workers serve requests in parallel.
MaxParallelCalls == 2

\* Notes in the stores on which list_notes alone is explored.
MaxNotes == 4

\* The request-handling worker threads.
Threads == {"w1", "w2"}
NoOwner == "none"

\* Optional[X]: None is the empty tuple, a present value x is <<x>>.
None == <<>>
Some(x) == <<x>>

\* Strings that the store searches are tuples of characters.
Titles == {<<"H", "i">>, <<"o", "K">>}
Contents == {<<"h", "I">>}
NewContents == {<<"x">>}
TagLists == {<<"x">>}
NewTagLists == {<<>>}
NoteIds == {1, 2}
Counts == {1, 2}
Queries == {None, Some(<<>>), Some(<<"k">>)}
Pages == {1, 2}
PageSizes == {1}

Opt(S) == {None} \cup {Some(x) : x \in S}

\* Inputs of list_notes explored on its own: the notes a store may hold, the
\* search strings, and every page and page size that can tell stores of up to
\* MaxNotes notes apart.
ListData ==
    {[title |-> <<"H", "i">>, content |-> <<"x">>],
     [title |-> <<"x">>, content |-> <<"h", "I">>],
     [title |-> <<"o", "K">>, content |-> <<"x">>]}
ListQueries == {None, Some(<<>>), Some(<<"k">>), Some(<<"H", "I">>)}
ListPages == 1..(MaxNotes + 1)
ListPageSizes == 1..MaxNotes

\* NoteCreate: title, content, optional tags.
NoteCreate == [title : Titles, content : Contents, tags : Opt(TagLists)]

\* NoteUpdate: every field optional.
NoteUpdate == [title : Opt({<<"o", "K">>}), content : Opt(NewContents), tags : Opt(NewTagLists)]

\* Note(...): the model object built by create_note.
Note(id, title, content, tags, created_at, updated_at) ==
    [id |-> id, title |-> title, content |-> content, tags |-> tags,
     created_at |-> created_at, updated_at |-> updated_at]

NullRef == 0

(***************************************************************************)
(* Python dict, insertion ordered: a sequence of [k, ref] entries.         *)
(***************************************************************************)
DictHas(d, k) == \E i \in 1..Len(d) : d[i].k = k

\* A lookup that finds the oldest entry whatever the key.
DictGetFirst(d, k) == IF d # <<>> THEN d[1].ref ELSE NullRef

DictGet(d, k) ==
    IF DictHas(d, k) THEN d[CHOOSE i \in 1..Len(d) : d[i].k = k].ref ELSE NullRef

\* A store of entries that puts a new key first.
DictSetFront(d, k, v) ==
    IF DictHas(d, k)
    THEN [i \in 1..Len(d) |-> IF d[i].k = k THEN [k |-> k, ref |-> v] ELSE d[i]]
    ELSE <<[k |-> k, ref |-> v]>> \o d

DictSet(d, k, v) ==
    IF DictHas(d, k)
    THEN [i \in 1..Len(d) |-> IF d[i].k = k THEN [k |-> k, ref |-> v] ELSE d[i]]
    ELSE Append(d, [k |-> k, ref |-> v])

\* A del that removes nothing.
DictDelKeep(d, k) == d

\* del d[k]
DictDel(d, k) ==
    LET keep(e) == e.k # k IN SelectSeq(d, keep)

DictValues(d) == [i \in 1..Len(d) |-> d[i].ref]

DictKeys(d) == {d[i].k : i \in 1..Len(d)}

\* A clear that removes nothing.
DictClearKeep(d) == d

\* d.clear()
DictClear(d) == <<>>

(***************************************************************************)
(* threading.RLock: an owner and a recursion count.                        *)
(***************************************************************************)
\* A lock that never makes a thread wait.
CanAcquireAlways(lk, t) == TRUE

\* A plain Lock: acquire() makes even the owner wait.
CanAcquireFree(lk, t) == lk.owner = NoOwner

\* acquire() returns at once for the owner and for anyone when the lock is free.
CanAcquire(lk, t) == lk.owner = NoOwner \/ lk.owner = t

Acquired(lk, t) == [owner |-> t, count |-> lk.count + 1]

\* A release that frees the lock however often its owner has taken it.
ReleasedFully(lk) == [owner |-> NoOwner, count |-> 0]

Released(lk) ==
    IF lk.count = 1 THEN [owner |-> NoOwner, count |-> 0]
    ELSE [owner |-> lk.owner, count |-> lk.count - 1]

\* A clock whose readings may fall.
_utcnowFalling(last) == IF last = 0 THEN {1} ELSE {last - 1, last + 1}

\* _utcnow(): a reading of a clock that does not run backwards.  Only the
\* order of readings matters: the first reading is 1 (0 stands for no reading
\* yet), every later one repeats the reading before it or exceeds it.
_utcnow(last) == IF last = 0 THEN {1} ELSE {last, last + 1}

\* The tags stored as given, None included.
TagsOrEmptyRaw(tags) == tags

\* data.tags or []
TagsOrEmpty(tags) == IF tags = None \/ tags = Some(<<>>) THEN Some(<<>>) ELSE tags

\* A counter that is written back unchanged.
IncrStuck(n) == n

\* self._next_id += 1
Incr(n) == n + 1

\* updated_fields of update_note: the (name, value) pairs of the present
\* fields, in the order title, content, tags.
UpdatedFields(patch) ==
    (IF patch.title # None THEN << <<"title", patch.title[1]>> >> ELSE <<>>)
    \o (IF patch.content # None THEN << <<"content", patch.content[1]>> >> ELSE <<>>)
    \o (IF patch.tags # None THEN << <<"tags", patch.tags[1]>> >> ELSE <<>>)

\* A test that takes the branch whatever the dict holds.
TruthyAlways(fields) == TRUE

\* `if updated_fields:`
Truthy(fields) == fields # <<>>

\* A setattr that empties the tags when it sets the title.
SetAttrClobber(n, k, v) ==
    IF k = "title" THEN [n EXCEPT !.title = v, !.tags = Some(<<>>)]
    ELSE IF k = "content" THEN [n EXCEPT !.content = v]
    ELSE [n EXCEPT !.tags = Some(v)]

\* setattr(existing, k, v)
SetAttr(n, k, v) ==
    IF k = "title" THEN [n EXCEPT !.title = v]
    ELSE IF k = "content" THEN [n EXCEPT !.content = v]
    ELSE [n EXCEPT !.tags = Some(v)]

(***************************************************************************)
(* str.lower() and `in` on strings (ASCII).                                *)
(***************************************************************************)
UpperCase == <<"A", "B", "C", "D", "E", "F", "G", "H", "I", "J", "K", "L", "M",
               "N", "O", "P", "Q", "R", "S", "T", "U", "V", "W", "X", "Y", "Z">>
LowerCase == <<"a", "b", "c", "d", "e", "f", "g", "h", "i", "j", "k", "l", "m",
               "n", "o", "p", "q", "r", "s", "t", "u", "v", "w", "x", "y", "z">>

LowerChar(c) ==
    IF \E i \in 1..26 : UpperCase[i] = c
    THEN LowerCase[CHOOSE i \in 1..26 : UpperCase[i] = c]
    ELSE c

\* A lower() that leaves the string as it is.
LowerKeep(s) == s

Lower(s) == [i \in 1..Len(s) |-> LowerChar(s[i])]

\* sub in s
Contains(s, sub) ==
    \E i \in 0..(Len(s) - Len(sub)) : \A j \in 1..Len(sub) : s[i + j] = sub[j]

\* A slice that takes one element more than asked.
SliceInclusive(s, start, end) ==
    LET hi == IF end + 1 < Len(s) THEN end + 1 ELSE Len(s)
    IN  [i \in 1..(IF hi > start THEN hi - start ELSE 0) |-> s[start + i]]

\* notes[start:end] for 0 <= start <= end
Slice(s, start, end) ==
    LET hi == IF end < Len(s) THEN end ELSE Len(s)
    IN  [i \in 1..(IF hi > start THEN hi - start ELSE 0) |-> s[start + i]]

(***************************************************************************)
(* f"Sample Note {i + 1}", f"This is a sample note #{i + 1}."              *)
(***************************************************************************)
Digits == <<"0", "1", "2", "3", "4", "5", "6", "7", "8", "9">>

RECURSIVE Decimal(_)
Decimal(n) == IF n < 10 THEN <<Digits[n + 1]>> ELSE Decimal(n \div 10) \o <<Digits[(n % 10) + 1]>>

SampleTitle(i) ==
    <<"S", "a", "m", "p", "l", "e", " ", "N", "o", "t", "e", " ">> \o Decimal(i + 1)

SampleContent(i) ==
    <<"T", "h", "i", "s", " ", "i", "s", " ", "a", " ", "s", "a", "m", "p", "l", "e", " ",
      "n", "o", "t", "e", " ", "#">> \o Decimal(i + 1) \o <<".">>

\* The tags of the first sample note, for every note.
SampleTagsSame(i) == <<"sample", "demo">>

SampleTags(i) == IF i % 2 = 0 THEN <<"sample", "demo">> ELSE <<"notes">>

VARIABLES
    _notes,     \* self._notes: dict id -> reference of the stored Note
    _next_id,   \* self._next_id
    _lock,      \* self._lock
    heap,       \* the Note objects, by reference (index)
    clock,      \* the last reading of the clock
    pc,         \* per thread: the statement it is about to run
    frame,      \* per thread: arguments and locals of the running call
    calls,      \* endpoint invocations still to come
    workers,    \* the threads that serve requests
    issued,     \* history: ids returned by create_note since the last reset
    deleted     \* history: ids for which delete_note returned True since the last reset

vars == <<_notes, _next_id, _lock, heap, clock, pc, frame, calls, workers, issued, deleted>>

NoData == [title |-> <<>>, content |-> <<>>, tags |-> None]
NoPatch == [title |-> None, content |-> None, tags |-> None]
NoPre == [notes |-> <<>>, next_id |-> 0, heap |-> <<>>, clock |-> 0]
NoSeedPre == [notes |-> <<>>, next_id |-> 0, heap |-> <<>>]

IdleFrame ==
    [caller |-> "", note_id |-> 0, data |-> NoData, patch |-> NoPatch,
     q |-> None, page |-> 0, page_size |-> 0, count |-> 0, i |-> 0,
     now |-> 0, note |-> NullRef, existing |-> NullRef, updated_fields |-> <<>>,
     next |-> 0, notes |-> <<>>, total |-> 0, pre |-> NoPre, seed_pre |-> NoSeedPre,
     held |-> <<>>, snap |-> <<>>, valid |-> <<>>, body |-> <<>>, part |-> <<>>]

Init ==
    /\ _notes = <<>>
    /\ _next_id = 1
    /\ _lock = [owner |-> NoOwner, count |-> 0]
    /\ heap = <<>>
    /\ clock = 0
    /\ pc = [t \in Threads |-> "idle"]
    /\ frame = [t \in Threads |-> IdleFrame]
    /\ calls = MaxCalls
    /\ workers = {"w1"}
    /\ issued = <<>>
    /\ deleted = {}

\* Two workers in parallel, from the store as one create_note leaves it.
InitParallel ==
    \E data \in {[title |-> <<"H", "i">>, content |-> <<"h", "I">>, tags |-> None]},
       now \in _utcnow(0) :
        LET note == Note(1, data.title, data.content, TagsOrEmpty(data.tags), now, now)
        IN  /\ _notes = DictSet(<<>>, 1, 1)
            /\ _next_id = Incr(1)
            /\ _lock = [owner |-> NoOwner, count |-> 0]
            /\ heap = <<note>>
            /\ clock = now
            /\ pc = [t \in Threads |-> "idle"]
            /\ frame = [t \in Threads |-> IdleFrame]
            /\ calls = MaxParallelCalls
            /\ workers = Threads
            /\ issued = <<1>>
            /\ deleted = {}

\* History: the store as the call found it when it took the lock.
Pre == [notes |-> _notes, next_id |-> _next_id, heap |-> heap, clock |-> clock]

\* History: the store as seed found it, kept through its create_note calls.
SeedPre == [notes |-> _notes, next_id |-> _next_id, heap |-> heap]

\* A worker receives a request and enters the store method its endpoint calls.
\* The request's arguments are drawn at the statement that first reads them.
EntryPoints ==
    {"create_note:113", "get_note:130", "update_note:136", "delete_note:159",
     "list_notes:93", "seed:168", "reset:182"}

Invoke(t) ==
    /\ pc[t] = "idle"
    /\ t \in workers
    /\ calls > 0
    /\ \E e \in EntryPoints : pc' = [pc EXCEPT ![t] = e]
    /\ calls' = calls - 1
    /\ UNCHANGED <<_notes, _next_id, _lock, heap, clock, frame, workers, issued, deleted>>

\* The endpoint hands the returned Note objects to the response: `held` are
\* the references, `snap` their values at the moment the store call returned.
Hand(f, refs) ==
    [IdleFrame EXCEPT !.held = refs,
                      !.snap = [i \in 1..Len(refs) |-> heap[refs[i]]],
                      !.valid = [i \in 1..Len(refs) |-> {heap[refs[i]]}]]

\* History kept for the readers: when a store call returns an updated note,
\* its new value joins the values any holder of that note may rightly read.
Publish(fr, ref) ==
    [u \in Threads |->
        [fr[u] EXCEPT !.valid = [i \in 1..Len(fr[u].held) |->
            IF fr[u].held[i] = ref THEN fr[u].valid[i] \cup {heap[ref]} ELSE fr[u].valid[i]]]]

(***************************************************************************)
(* create_note                                                             *)
(***************************************************************************)
create_note_L113(t) ==
    /\ pc[t] = "create_note:113"
    /\ CanAcquire(_lock, t)
    /\ _lock' = Acquired(_lock, t)
    /\ frame' = [frame EXCEPT ![t].pre = Pre]
    /\ pc' = [pc EXCEPT ![t] = "create_note:114"]
    /\ UNCHANGED <<_notes, _next_id, heap, clock, calls, workers, issued, deleted>>

create_note_L114(t) ==
    /\ pc[t] = "create_note:114"
    /\ \E now \in _utcnow(clock) :
          /\ clock' = now
          /\ frame' = [frame EXCEPT ![t].now = now]
    /\ pc' = [pc EXCEPT ![t] = "create_note:115"]
    /\ UNCHANGED <<_notes, _next_id, _lock, heap, calls, workers, issued, deleted>>

create_note_L115(t) ==
    /\ pc[t] = "create_note:115"
    /\ \E data \in (IF frame[t].caller = "seed" THEN {frame[t].data} ELSE NoteCreate) :
          /\ heap' = Append(heap, Note(_next_id, data.title, data.content,
                                       TagsOrEmpty(data.tags), frame[t].now, frame[t].now))
          /\ frame' = [frame EXCEPT ![t].data = data, ![t].note = Len(heap) + 1]
    /\ pc' = [pc EXCEPT ![t] = "create_note:123"]
    /\ UNCHANGED <<_notes, _next_id, _lock, clock, calls, workers, issued, deleted>>

create_note_L123(t) ==
    /\ pc[t] = "create_note:123"
    /\ _notes' = DictSet(_notes, _next_id, frame[t].note)
    /\ pc' = [pc EXCEPT ![t] = "create_note:124"]
    /\ UNCHANGED <<_next_id, _lock, heap, clock, frame, calls, workers, issued, deleted>>

\* self._next_id += 1 reads the attribute, adds, and writes it back.
create_note_L124(t) ==
    /\ pc[t] = "create_note:124"
    /\ frame' = [frame EXCEPT ![t].next = _next_id]
    /\ pc' = [pc EXCEPT ![t] = "create_note:124w"]
    /\ UNCHANGED <<_notes, _next_id, _lock, heap, clock, calls, workers, issued, deleted>>

create_note_L124w(t) ==
    /\ pc[t] = "create_note:124w"
    /\ _next_id' = Incr(frame[t].next)
    /\ pc' = [pc EXCEPT ![t] = "create_note:125"]
    /\ UNCHANGED <<_notes, _lock, heap, clock, frame, calls, workers, issued, deleted>>

\* return note: leaves the with block; to the endpoint, or back into seed's loop.
create_note_L125(t) ==
    /\ pc[t] = "create_note:125"
    /\ _lock' = Released(_lock)
    /\ issued' = Append(issued, heap[frame[t].note].id)
    /\ IF frame[t].caller = "seed"
       THEN /\ pc' = [pc EXCEPT ![t] = "seed:169"]
            /\ frame' = [frame EXCEPT ![t] =
                  [IdleFrame EXCEPT !.caller = "seed", !.count = frame[t].count,
                                    !.i = frame[t].i + 1,
                                    !.seed_pre = frame[t].seed_pre]]
       ELSE /\ pc' = [pc EXCEPT ![t] = "respond"]
            /\ frame' = [frame EXCEPT ![t] = Hand(frame[t], <<frame[t].note>>)]
    /\ UNCHANGED <<_notes, _next_id, heap, clock, calls, workers, deleted>>

(***************************************************************************)
(* get_note                                                                *)
(***************************************************************************)
get_note_L130(t) ==
    /\ pc[t] = "get_note:130"
    /\ CanAcquire(_lock, t)
    /\ _lock' = Acquired(_lock, t)
    /\ frame' = [frame EXCEPT ![t].pre = Pre]
    /\ pc' = [pc EXCEPT ![t] = "get_note:131"]
    /\ UNCHANGED <<_notes, _next_id, heap, clock, calls, workers, issued, deleted>>

get_note_L131(t) ==
    /\ pc[t] = "get_note:131"
    /\ \E id \in NoteIds :
          frame' = [frame EXCEPT ![t].note_id = id, ![t].note = DictGet(_notes, id)]
    /\ pc' = [pc EXCEPT ![t] = "get_note:return"]
    /\ UNCHANGED <<_notes, _next_id, _lock, heap, clock, calls, workers, issued, deleted>>

\* get_note_endpoint: 404 when the store returned None, else the note itself.
get_note_return(t) ==
    /\ pc[t] = "get_note:return"
    /\ _lock' = Released(_lock)
    /\ IF frame[t].note = NullRef
       THEN /\ pc' = [pc EXCEPT ![t] = "idle"]
            /\ frame' = [frame EXCEPT ![t] = IdleFrame]
       ELSE /\ pc' = [pc EXCEPT ![t] = "respond"]
            /\ frame' = [frame EXCEPT ![t] = Hand(frame[t], <<frame[t].note>>)]
    /\ UNCHANGED <<_notes, _next_id, heap, clock, calls, workers, issued, deleted>>

(***************************************************************************)
(* update_note                                                             *)
(***************************************************************************)
update_note_L136(t) ==
    /\ pc[t] = "update_note:136"
    /\ CanAcquire(_lock, t)
    /\ _lock' = Acquired(_lock, t)
    /\ frame' = [frame EXCEPT ![t].pre = Pre]
    /\ pc' = [pc EXCEPT ![t] = "update_note:137"]
    /\ UNCHANGED <<_notes, _next_id, heap, clock, calls, workers, issued, deleted>>

\* existing = self._notes.get(note_id); if not existing: return None
update_note_L137(t) ==
    /\ pc[t] = "update_note:137"
    /\ \E id \in NoteIds :
          LET existing == DictGet(_notes, id)
          IN  /\ frame' = [frame EXCEPT ![t].note_id = id, ![t].existing = existing]
              /\ pc' = [pc EXCEPT ![t] =
                           IF existing = NullRef THEN "update_note:139" ELSE "update_note:141"]
    /\ UNCHANGED <<_notes, _next_id, _lock, heap, clock, calls, workers, issued, deleted>>

\* return None: update_note_endpoint answers 404.
update_note_L139(t) ==
    /\ pc[t] = "update_note:139"
    /\ _lock' = Released(_lock)
    /\ pc' = [pc EXCEPT ![t] = "idle"]
    /\ frame' = [frame EXCEPT ![t] = IdleFrame]
    /\ UNCHANGED <<_notes, _next_id, heap, clock, calls, workers, issued, deleted>>

\* Lines 141-149: collect the present fields, then `if updated_fields:`.
update_note_L141(t) ==
    /\ pc[t] = "update_note:141"
    /\ \E patch \in NoteUpdate :
          LET fields == UpdatedFields(patch)
          IN  /\ frame' = [frame EXCEPT ![t].patch = patch, ![t].updated_fields = fields]
              /\ pc' = [pc EXCEPT ![t] =
                           IF Truthy(fields)
                           THEN (IF fields = <<>> THEN "update_note:152" ELSE "update_note:150")
                           ELSE "update_note:154"]
    /\ UNCHANGED <<_notes, _next_id, _lock, heap, clock, calls, workers, issued, deleted>>

\* One turn of `for k, v in updated_fields.items(): setattr(existing, k, v)`.
update_note_L150(t) ==
    /\ pc[t] = "update_note:150"
    /\ LET kv == Head(frame[t].updated_fields)
           rest == Tail(frame[t].updated_fields)
       IN  /\ heap' = [heap EXCEPT ![frame[t].existing] = SetAttr(@, kv[1], kv[2])]
           /\ frame' = [frame EXCEPT ![t].updated_fields = rest]
           /\ pc' = [pc EXCEPT ![t] =
                        IF rest = <<>> THEN "update_note:152" ELSE "update_note:150"]
    /\ UNCHANGED <<_notes, _next_id, _lock, clock, calls, workers, issued, deleted>>

\* existing.updated_at = self._utcnow()
update_note_L152(t) ==
    /\ pc[t] = "update_note:152"
    /\ \E now \in _utcnow(clock) :
          /\ clock' = now
          /\ frame' = [frame EXCEPT ![t].now = now]
          /\ heap' = [heap EXCEPT ![frame[t].existing].updated_at = now]
    /\ pc' = [pc EXCEPT ![t] = "update_note:154"]
    /\ UNCHANGED <<_notes, _next_id, _lock, calls, workers, issued, deleted>>

\* return existing
update_note_L154(t) ==
    /\ pc[t] = "update_note:154"
    /\ _lock' = Released(_lock)
    /\ pc' = [pc EXCEPT ![t] = "respond"]
    /\ frame' = [Publish(frame, frame[t].existing) EXCEPT
                    ![t] = Hand(frame[t], <<frame[t].existing>>)]
    /\ UNCHANGED <<_notes, _next_id, heap, clock, calls, workers, issued, deleted>>

(***************************************************************************)
(* delete_note                                                             *)
(***************************************************************************)
delete_note_L159(t) ==
    /\ pc[t] = "delete_note:159"
    /\ CanAcquire(_lock, t)
    /\ _lock' = Acquired(_lock, t)
    /\ frame' = [frame EXCEPT ![t].pre = Pre]
    /\ pc' = [pc EXCEPT ![t] = "delete_note:160"]
    /\ UNCHANGED <<_notes, _next_id, heap, clock, calls, workers, issued, deleted>>

\* if note_id in self._notes
delete_note_L160(t) ==
    /\ pc[t] = "delete_note:160"
    /\ \E id \in NoteIds :
          /\ frame' = [frame EXCEPT ![t].note_id = id]
          /\ pc' = [pc EXCEPT ![t] =
                       IF DictHas(_notes, id) THEN "delete_note:161" ELSE "delete_note:163"]
    /\ UNCHANGED <<_notes, _next_id, _lock, heap, clock, calls, workers, issued, deleted>>

\* A del that also hands the counter back its last id.
delete_note_L161_reuse(t) ==
    /\ pc[t] = "delete_note:161"
    /\ _notes' = DictDel(_notes, frame[t].note_id)
    /\ _next_id' = _next_id - 1
    /\ pc' = [pc EXCEPT ![t] = "delete_note:162"]
    /\ UNCHANGED <<_lock, heap, clock, frame, calls, workers, issued, deleted>>

\* del self._notes[note_id]
delete_note_L161(t) ==
    /\ pc[t] = "delete_note:161"
    /\ _notes' = DictDel(_notes, frame[t].note_id)
    /\ pc' = [pc EXCEPT ![t] = "delete_note:162"]
    /\ UNCHANGED <<_next_id, _lock, heap, clock, frame, calls, workers, issued, deleted>>

\* return True
delete_note_L162(t) ==
    /\ pc[t] = "delete_note:162"
    /\ _lock' = Released(_lock)
    /\ deleted' = deleted \cup {frame[t].note_id}
    /\ pc' = [pc EXCEPT ![t] = "idle"]
    /\ frame' = [frame EXCEPT ![t] = IdleFrame]
    /\ UNCHANGED <<_notes, _next_id, heap, clock, calls, workers, issued>>

\* return False: delete_note_endpoint answers 404.
delete_note_L163(t) ==
    /\ pc[t] = "delete_note:163"
    /\ _lock' = Released(_lock)
    /\ pc' = [pc EXCEPT ![t] = "idle"]
    /\ frame' = [frame EXCEPT ![t] = IdleFrame]
    /\ UNCHANGED <<_notes, _next_id, heap, clock, calls, workers, issued, deleted>>

(***************************************************************************)
(* list_notes                                                              *)
(***************************************************************************)
\* Lines 96-101: the notes kept by the search.
Matches(n, q) ==
    LET q_lower == Lower(q)
    IN  Contains(Lower(n.title), q_lower) \/ Contains(Lower(n.content), q_lower)

Filter(refs, q, h) ==
    IF q # None /\ q[1] # <<>>
    THEN LET keep(r) == Matches(h[r], q[1]) IN SelectSeq(refs, keep)
    ELSE refs

\* A listing whose total counts the notes on the page.
ListNotesPageTotal(d, h, q, page, page_size) ==
    LET notes == Filter(DictValues(d), q, h)
        start == (page - 1) * page_size
        end   == start + page_size
    IN  [items |-> Slice(notes, start, end), total |-> Len(Slice(notes, start, end))]

\* Lines 94-108 on a given store: the references on the page and the total.
ListNotes(d, h, q, page, page_size) ==
    LET notes == Filter(DictValues(d), q, h)
        start == (page - 1) * page_size
        end   == start + page_size
    IN  [items |-> Slice(notes, start, end), total |-> Len(notes)]

list_notes_L93(t) ==
    /\ pc[t] = "list_notes:93"
    /\ CanAcquire(_lock, t)
    /\ _lock' = Acquired(_lock, t)
    /\ pc' = [pc EXCEPT ![t] = "list_notes:94"]
    /\ UNCHANGED <<_notes, _next_id, heap, clock, frame, calls, workers, issued, deleted>>

\* Lines 94-106: copy the values, filter, count, slice, for a request whose
\* query parameters are among Q, P and S.
list_notes_L94_args(t, Q, P, S) ==
    /\ pc[t] = "list_notes:94"
    /\ \E q \in Q, page \in P, page_size \in S :
          LET r == ListNotes(_notes, heap, q, page, page_size)
          IN  frame' = [frame EXCEPT ![t].q = q, ![t].page = page, ![t].page_size = page_size,
                                     ![t].notes = r.items, ![t].total = r.total]
    /\ pc' = [pc EXCEPT ![t] = "list_notes:108"]
    /\ UNCHANGED <<_notes, _next_id, _lock, heap, clock, calls, workers, issued, deleted>>

list_notes_L94(t) == list_notes_L94_args(t, Queries, Pages, PageSizes)

\* The same statements for a request whose parameters are already known.
list_notes_L94_bound(t) ==
    list_notes_L94_args(t, {frame[t].q}, {frame[t].page}, {frame[t].page_size})

\* return PaginatedNotes(items=page_items, total=total, ...)
list_notes_L108(t) ==
    /\ pc[t] = "list_notes:108"
    /\ _lock' = Released(_lock)
    /\ IF frame[t].notes = <<>>
       THEN /\ pc' = [pc EXCEPT ![t] = "idle"]
            /\ frame' = [frame EXCEPT ![t] = IdleFrame]
       ELSE /\ pc' = [pc EXCEPT ![t] = "respond"]
            /\ frame' = [frame EXCEPT ![t] = Hand(frame[t], frame[t].notes)]
    /\ UNCHANGED <<_notes, _next_id, heap, clock, calls, workers, issued, deleted>>

(***************************************************************************)
(* seed                                                                    *)
(***************************************************************************)
seed_L168(t) ==
    /\ pc[t] = "seed:168"
    /\ CanAcquire(_lock, t)
    /\ _lock' = Acquired(_lock, t)
    /\ \E count \in Counts :
          frame' = [frame EXCEPT ![t].caller = "seed", ![t].count = count, ![t].i = 0,
                                 ![t].seed_pre = SeedPre]
    /\ pc' = [pc EXCEPT ![t] = "seed:169"]
    /\ UNCHANGED <<_notes, _next_id, heap, clock, calls, workers, issued, deleted>>

\* for i in range(count): self.create_note(NoteCreate(...))
seed_L169(t) ==
    /\ pc[t] = "seed:169"
    /\ IF frame[t].i < frame[t].count
       THEN /\ frame' = [frame EXCEPT ![t].data =
                            [title |-> SampleTitle(frame[t].i),
                             content |-> SampleContent(frame[t].i),
                             tags |-> Some(SampleTags(frame[t].i))]]
            /\ pc' = [pc EXCEPT ![t] = "create_note:113"]
       ELSE /\ frame' = frame
            /\ pc' = [pc EXCEPT ![t] = "seed:177"]
    /\ UNCHANGED <<_notes, _next_id, _lock, heap, clock, calls, workers, issued, deleted>>

\* return count
seed_L177(t) ==
    /\ pc[t] = "seed:177"
    /\ _lock' = Released(_lock)
    /\ pc' = [pc EXCEPT ![t] = "idle"]
    /\ frame' = [frame EXCEPT ![t] = IdleFrame]
    /\ UNCHANGED <<_notes, _next_id, heap, clock, calls, workers, issued, deleted>>

(***************************************************************************)
(* reset                                                                   *)
(***************************************************************************)
reset_L182(t) ==
    /\ pc[t] = "reset:182"
    /\ CanAcquire(_lock, t)
    /\ _lock' = Acquired(_lock, t)
    /\ pc' = [pc EXCEPT ![t] = "reset:183"]
    /\ UNCHANGED <<_notes, _next_id, heap, clock, frame, calls, workers, issued, deleted>>

\* self._notes.clear()
reset_L183(t) ==
    /\ pc[t] = "reset:183"
    /\ _notes' = DictClear(_notes)
    /\ pc' = [pc EXCEPT ![t] = "reset:184"]
    /\ UNCHANGED <<_next_id, _lock, heap, clock, frame, calls, workers, issued, deleted>>

\* self._next_id = 1
reset_L184(t) ==
    /\ pc[t] = "reset:184"
    /\ _next_id' = 1
    /\ pc' = [pc EXCEPT ![t] = "reset:return"]
    /\ UNCHANGED <<_notes, _lock, heap, clock, frame, calls, workers, issued, deleted>>

reset_return(t) ==
    /\ pc[t] = "reset:return"
    /\ _lock' = Released(_lock)
    /\ issued' = <<>>
    /\ deleted' = {}
    /\ pc' = [pc EXCEPT ![t] = "idle"]
    /\ frame' = [frame EXCEPT ![t] = IdleFrame]
    /\ UNCHANGED <<_notes, _next_id, heap, clock, calls, workers>>

(***************************************************************************)
(* The endpoints return the store's Note objects; the response is built    *)
(* from their fields after the store call has returned, outside the lock.  *)
(***************************************************************************)
ResponseFields == <<"title", "content", "tags", "updated_at">>

\* Reads the next field of the note being written to the response.
respond_read(t) ==
    /\ pc[t] = "respond"
    /\ Len(frame[t].body) < Len(frame[t].held)
    /\ LET n == heap[frame[t].held[Len(frame[t].body) + 1]]
           k == Len(frame[t].part) + 1
           v == IF k = 1 THEN n.title
                ELSE IF k = 2 THEN n.content
                ELSE IF k = 3 THEN n.tags
                ELSE n.updated_at
       IN  IF k < Len(ResponseFields)
           THEN frame' = [frame EXCEPT ![t].part = Append(@, v)]
           ELSE frame' = [frame EXCEPT
                    ![t].part = <<>>,
                    ![t].body = Append(@, Note(n.id, frame[t].part[1], frame[t].part[2],
                                               frame[t].part[3], n.created_at, v))]
    /\ UNCHANGED <<_notes, _next_id, _lock, heap, clock, pc, calls, workers, issued, deleted>>

\* The response is complete and sent.
respond_send(t) ==
    /\ pc[t] = "respond"
    /\ Len(frame[t].body) = Len(frame[t].held)
    /\ pc' = [pc EXCEPT ![t] = "idle"]
    /\ frame' = [frame EXCEPT ![t] = IdleFrame]
    /\ UNCHANGED <<_notes, _next_id, _lock, heap, clock, calls, workers, issued, deleted>>

Next ==
    \E t \in Threads :
        \/ Invoke(t)
        \/ create_note_L113(t)
        \/ create_note_L114(t)
        \/ create_note_L115(t)
        \/ create_note_L123(t)
        \/ create_note_L124(t)
        \/ create_note_L124w(t)
        \/ create_note_L125(t)
        \/ get_note_L130(t)
        \/ get_note_L131(t)
        \/ get_note_return(t)
        \/ update_note_L136(t)
        \/ update_note_L137(t)
        \/ update_note_L139(t)
        \/ update_note_L141(t)
        \/ update_note_L150(t)
        \/ update_note_L152(t)
        \/ update_note_L154(t)
        \/ delete_note_L159(t)
        \/ delete_note_L160(t)
        \/ delete_note_L161(t)
        \/ delete_note_L162(t)
        \/ delete_note_L163(t)
        \/ list_notes_L93(t)
        \/ list_notes_L94(t)
        \/ list_notes_L108(t)
        \/ seed_L168(t)
        \/ seed_L169(t)
        \/ seed_L177(t)
        \/ reset_L182(t)
        \/ reset_L183(t)
        \/ reset_L184(t)
        \/ reset_return(t)
        \/ respond_read(t)
        \/ respond_send(t)

\* The statements of thread t inside the store and the endpoints.
Step(t) ==
    \/ create_note_L113(t) \/ create_note_L114(t) \/ create_note_L115(t)
    \/ create_note_L123(t) \/ create_note_L124(t) \/ create_note_L124w(t)
    \/ create_note_L125(t)
    \/ get_note_L130(t) \/ get_note_L131(t) \/ get_note_return(t)
    \/ update_note_L136(t) \/ update_note_L137(t) \/ update_note_L139(t)
    \/ update_note_L141(t) \/ update_note_L150(t) \/ update_note_L152(t)
    \/ update_note_L154(t)
    \/ delete_note_L159(t) \/ delete_note_L160(t) \/ delete_note_L161(t)
    \/ delete_note_L162(t) \/ delete_note_L163(t)
    \/ list_notes_L93(t) \/ list_notes_L94(t) \/ list_notes_L108(t)
    \/ seed_L168(t) \/ seed_L169(t) \/ seed_L177(t)
    \/ reset_L182(t) \/ reset_L183(t) \/ reset_L184(t) \/ reset_return(t)
    \/ respond_read(t) \/ respond_send(t)

\* The scheduler gives every thread that can run a turn.  Requests need not
\* keep coming: Invoke is under no fairness.
Fairness == \A t \in Threads : WF_vars(Step(t))

\* Two workers in parallel under a fair scheduler.
SpecFair == InitParallel /\ [][Next]_vars /\ Fairness

\* list_notes alone, on a store and with parameters fixed from the start.
InitList ==
    \E n \in 0..MaxNotes :
    \E datas \in [1..n -> ListData] :
    \E q \in ListQueries, page \in ListPages, page_size \in ListPageSizes :
        /\ heap = [i \in 1..n |->
                     Note(i, datas[i].title, datas[i].content, TagsOrEmpty(None), 1, 1)]
        /\ _notes = [i \in 1..n |-> [k |-> i, ref |-> i]]
        /\ _next_id = n + 1
        /\ _lock = [owner |-> NoOwner, count |-> 0]
        /\ clock = IF n = 0 THEN 0 ELSE 1
        /\ pc = [t \in Threads |-> IF t = "w1" THEN "list_notes:93" ELSE "idle"]
        /\ frame = [t \in Threads |->
                      IF t = "w1"
                      THEN [IdleFrame EXCEPT !.q = q, !.page = page, !.page_size = page_size]
                      ELSE IdleFrame]
        /\ calls = 0
        /\ workers = {"w1"}
        /\ issued = [i \in 1..n |-> i]
        /\ deleted = {}

NextList ==
    \E t \in Threads :
        \/ list_notes_L93(t)
        \/ list_notes_L94_bound(t)
        \/ list_notes_L108(t)
        \/ respond_read(t)
        \/ respond_send(t)

SpecList == InitList /\ [][NextList]_vars

\* One worker: the calls of the store follow one another.
Spec == Init /\ [][Next]_vars

\* Two workers: calls overlap.
SpecParallel == InitParallel /\ [][Next]_vars

(***************************************************************************)
(* What a caller would be told in the current state.                       *)
(***************************************************************************)
\* The ids a request may name: those of the requests above and every id the
\* store has handed out or is about to.
ProbeIds == NoteIds \cup 1..(Len(heap) + 1)

Unlocked == _lock.owner = NoOwner

\* Ids for which get_note returns a note.
GetVisible == {id \in ProbeIds : DictGet(_notes, id) # NullRef}

\* Ids of the notes of an unfiltered list_notes holding every note on one page.
ListVisible ==
    LET r == ListNotes(_notes, heap, None, 1, Len(_notes) + 1)
    IN  {heap[r.items[i]].id : i \in 1..Len(r.items)}

IssuedIds == {issued[i] : i \in 1..Len(issued)}

(***************************************************************************)
(* Properties.                                                             *)
(***************************************************************************)

\* C1: between two resets every create_note returns an id strictly greater
\* than the ids returned by all earlier creates, deleted or not, and the first
\* create on a fresh store returns 1.
C1_MonotonicIds ==
    /\ \A i, j \in 1..Len(issued) : i < j => issued[i] < issued[j]
    /\ issued # <<>> => issued[1] = 1
    /\ \A t \in Threads : pc[t] = "create_note:125" =>
          \A i \in 1..Len(issued) : issued[i] < heap[frame[t].note].id

\* A create_note returns after an earlier note has been deleted.
C1_Witness ==
    \E t \in Threads :
        pc[t] = "create_note:125" /\ issued # <<>> /\ deleted # {}

\* C2: the ids get_note finds, and the ids an unfiltered list_notes shows, are
\* exactly the ids handed out by create_note or seed since the last reset and
\* not deleted since.
C2_VisibleSet ==
    Unlocked =>
        /\ GetVisible = IssuedIds \ deleted
        /\ ListVisible = IssuedIds \ deleted

\* Some note has been deleted while another is still visible.
C2_Witness ==
    Unlocked /\ deleted # {} /\ GetVisible # {}

\* A thread is inside update_note, past the lookup, patching object ref with
\* two or more fields.
Patching(u, ref) ==
    /\ pc[u] \in {"update_note:150", "update_note:152", "update_note:154"}
    /\ frame[u].existing = ref
    /\ Len(UpdatedFields(frame[u].patch)) >= 2

\* C3: a reader of a note that update_note is patching with two or more fields
\* reads title, content, tags and updated_at that are all the values before
\* the update or all the values after it.
C3_NoTornRead ==
    \A t \in Threads : \A i \in 1..Len(frame[t].body) :
        (\E u \in Threads \ {t} : Patching(u, frame[t].held[i]))
            => frame[t].body[i] \in frame[t].valid[i]

\* C4: create_note calls of different threads do not interleave: each returns
\* the id the counter held when it took the lock, leaves the dict as it found
\* it plus its own note, and the counter one higher; ids are pairwise distinct,
\* every created and undeleted note is stored under its id, and the counter
\* has advanced by the number of notes created.
C4_CreateIndivisible ==
    /\ \A t \in Threads : pc[t] = "create_note:125" =>
          LET f == frame[t]
          IN  /\ heap[f.note].id = f.pre.next_id
              /\ _notes = Append(f.pre.notes, [k |-> f.pre.next_id, ref |-> f.note])
              /\ _next_id = f.pre.next_id + 1
    /\ \A i, j \in 1..Len(issued) : i # j => issued[i] # issued[j]
    /\ Unlocked =>
          /\ _next_id = 1 + Len(issued)
          /\ \A id \in IssuedIds \ deleted :
                DictGet(_notes, id) # NullRef /\ heap[DictGet(_notes, id)].id = id

\* One thread is inside create_note while another, itself calling create_note
\* or seed, waits for the lock.
C4_Witness ==
    \E t, u \in Threads :
        /\ t # u
        /\ pc[t] \in {"create_note:115", "create_note:123", "create_note:124", "create_note:124w"}
        /\ pc[u] \in {"create_note:113", "seed:168"}

\* C5: the Note a store call handed to its caller keeps the values it had when
\* the call returned, whatever update_note does afterwards.
C5_HeldNoteStable ==
    \A t \in Threads : \A i \in 1..Len(frame[t].held) :
        heap[frame[t].held[i]] = frame[t].snap[i]

\* C6: update_note of an existing id changes, on the target, only the fields
\* present in the patch and updated_at; absent fields, id and created_at keep
\* their values, and every other note, the dict and the counter are unchanged.
C6_UpdateFrame ==
    \A t \in Threads : pc[t] = "update_note:154" =>
        LET f == frame[t]
            old == f.pre.heap[f.existing]
            new == heap[f.existing]
        IN  /\ new.title = (IF f.patch.title # None THEN f.patch.title[1] ELSE old.title)
            /\ new.content = (IF f.patch.content # None THEN f.patch.content[1] ELSE old.content)
            /\ new.tags = (IF f.patch.tags # None THEN f.patch.tags ELSE old.tags)
            /\ new.id = old.id
            /\ new.created_at = old.created_at
            /\ Len(heap) = Len(f.pre.heap)
            /\ \A r \in 1..Len(heap) : r # f.existing => heap[r] = f.pre.heap[r]
            /\ _notes = f.pre.notes
            /\ _next_id = f.pre.next_id

\* A patch of the title alone has changed the title of one of two stored notes.
C6_Witness ==
    \E t \in Threads :
        /\ pc[t] = "update_note:154"
        /\ frame[t].patch.title # None
        /\ frame[t].patch.content = None
        /\ frame[t].patch.tags = None
        /\ heap[frame[t].existing].title # frame[t].pre.heap[frame[t].existing].title
        /\ heap[frame[t].existing].tags # Some(<<>>)
        /\ Len(_notes) > 1

\* C7: update_note of an existing id sets updated_at to the clock's reading
\* exactly when the patch holds a field: an empty patch leaves the whole note
\* as it was, a non-empty one resets updated_at even if no value changes.
C7_UpdatedAt ==
    \A t \in Threads : pc[t] = "update_note:154" =>
        LET f == frame[t]
            old == f.pre.heap[f.existing]
            new == heap[f.existing]
        IN  IF f.patch = NoPatch
            THEN new = old /\ clock = f.pre.clock
            ELSE /\ new.updated_at = clock
                 /\ clock \in _utcnow(f.pre.clock)

\* A patch whose values are the stored ones has moved updated_at forward.
C7_Witness ==
    \E t \in Threads :
        /\ pc[t] = "update_note:154"
        /\ frame[t].patch # NoPatch
        /\ LET old == frame[t].pre.heap[frame[t].existing]
               new == heap[frame[t].existing]
           IN  /\ new.title = old.title /\ new.content = old.content /\ new.tags = old.tags
               /\ new.updated_at > old.updated_at

\* C8: get_note on the id create_note returns, asked before any other call,
\* finds a note with that id, the title and content given, the tags given (the
\* empty list when none were) and created_at equal to updated_at.
C8_CreateThenGet ==
    \A t \in Threads : pc[t] = "create_note:125" =>
        LET f == frame[t]
            id == heap[f.note].id
            got == DictGet(_notes, id)
        IN  /\ got # NullRef
            /\ heap[got].id = id
            /\ heap[got].title = f.data.title
            /\ heap[got].content = f.data.content
            /\ heap[got].tags = (IF f.data.tags = None THEN Some(<<>>) ELSE f.data.tags)
            /\ heap[got].created_at = heap[got].updated_at

\* A create_note without tags is about to return, with an older note stored.
C8_Witness ==
    \E t \in Threads :
        /\ pc[t] = "create_note:125"
        /\ frame[t].caller = ""
        /\ frame[t].data.tags = None
        /\ Len(_notes) > 1

\* C9: once delete_note(id) has returned True, and until a reset, get_note(id)
\* returns None and delete_note(id) returns False.
C9_DeletedStaysGone ==
    /\ Unlocked => \A id \in deleted : DictGet(_notes, id) = NullRef
    /\ \A t \in Threads :
          /\ pc[t] = "get_note:return" /\ frame[t].note_id \in deleted
                => frame[t].note = NullRef
          /\ pc[t] \in {"delete_note:161", "delete_note:162"}
                => frame[t].note_id \notin deleted

\* A second delete_note of a deleted id is about to return False.
C9_Witness ==
    \E t \in Threads : pc[t] = "delete_note:163" /\ frame[t].note_id \in deleted

\* C10: reset leaves no note (list_notes reports total 0, get_note finds
\* nothing) and the counter at 1, and the create_note after it returns id 1.
C10_Reset ==
    \A t \in Threads :
        /\ pc[t] = "reset:return" =>
              /\ ListNotes(_notes, heap, None, 1, 10).total = 0
              /\ GetVisible = {}
              /\ _next_id = 1
        /\ pc[t] = "create_note:125" /\ issued = <<>> /\ Len(heap) > 1
              => heap[frame[t].note].id = 1

\* The first create_note after a reset of a store that held a note returns.
C10_Witness ==
    \E t \in Threads :
        pc[t] = "create_note:125" /\ issued = <<>> /\ Len(heap) > 1
(***************************************************************************)
(* list_notes: search and pagination.                                      *)
(***************************************************************************)
\* The stored notes a search for q is to select, in the order of the dict.
Matching(q) ==
    LET keep(r) == q = None \/ q[1] = <<>> \/ Matches(heap[r], q[1])
    IN  SelectSeq(DictValues(_notes), keep)

\* The items of pages p .. last of list_notes(q, page_size), one after another.
RECURSIVE PagesFrom(_, _, _, _)
PagesFrom(q, page_size, p, last) ==
    IF p > last THEN <<>>
    ELSE ListNotes(_notes, heap, q, p, page_size).items
            \o PagesFrom(q, page_size, p + 1, last)

\* ceil(total / page_size)
LastPage(total, page_size) == (total + page_size - 1) \div page_size

\* C11: on an unmodified store, the items of list_notes for pages 1 to
\* ceil(total / page_size), put one after another, hold every note matching
\* the query exactly once: none is left out, none is on two pages.
C11_PagesCoverFilter ==
    \A t \in Threads : pc[t] = "list_notes:108" =>
        LET f == frame[t]
            last == LastPage(f.total, f.page_size)
            all == IF f.page <= last
                   THEN PagesFrom(f.q, f.page_size, 1, f.page - 1) \o f.notes
                            \o PagesFrom(f.q, f.page_size, f.page + 1, last)
                   ELSE PagesFrom(f.q, f.page_size, 1, last)
            matching == Matching(f.q)
        IN  /\ \A i \in 1..Len(matching) :
                  Cardinality({j \in 1..Len(all) : all[j] = matching[i]}) = 1
            /\ \A j \in 1..Len(all) : \E i \in 1..Len(matching) : all[j] = matching[i]
            /\ f.page > last => f.notes = <<>>

\* The last, partly filled page of a search that leaves a stored note out.
C11_Witness ==
    \E t \in Threads :
        /\ pc[t] = "list_notes:108"
        /\ frame[t].q = Some(<<"H", "I">>)
        /\ frame[t].page_size = 2
        /\ frame[t].page = 2
        /\ frame[t].total = 3
        /\ Len(frame[t].notes) = 1
        /\ Len(_notes) > 3

\* C12: for page >= 1 and page_size >= 1, list_notes returns as total the
\* number of notes matching the query, whatever the page and page size, and as
\* items the matching notes at indices (page-1)*page_size up to, not
\* including, (page-1)*page_size + page_size, cut at the end of the list;
\* items is empty and total still the full count when (page-1)*page_size >= total.
C12_TotalAndSlice ==
    \A t \in Threads : pc[t] = "list_notes:108" =>
        LET f == frame[t]
            matching == Matching(f.q)
            start == (f.page - 1) * f.page_size
            end == start + f.page_size
            clipped == IF end < Len(matching) THEN end ELSE Len(matching)
        IN  /\ f.total = Len(matching)
            /\ f.notes = SubSeq(matching, start + 1, clipped)
            /\ start >= f.total => f.notes = <<>>

\* A page past the end of a search that matches some notes and not others.
C12_Witness ==
    \E t \in Threads :
        /\ pc[t] = "list_notes:108"
        /\ frame[t].q = Some(<<"k">>)
        /\ (frame[t].page - 1) * frame[t].page_size >= frame[t].total
        /\ frame[t].total = 2
        /\ frame[t].page_size = 2
        /\ Len(_notes) > 2

\* Two characters that are equal, or the two cases of one letter.
SameLetter(a, b) ==
    a = b \/ \E i \in 1..26 : {a, b} = {UpperCase[i], LowerCase[i]}

\* sub occurs in s when the case of letters is ignored.
ContainsIgnoringCase(s, sub) ==
    \E i \in 0..(Len(s) - Len(sub)) : \A j \in 1..Len(sub) : SameLetter(s[i + j], sub[j])

\* The stored notes a search for q is to select, by their current fields.
Selected(q) ==
    {r \in {_notes[i].ref : i \in 1..Len(_notes)} :
        \/ q = None
        \/ q[1] = <<>>
        \/ ContainsIgnoringCase(heap[r].title, q[1])
        \/ ContainsIgnoringCase(heap[r].content, q[1])}

\* C13: with a non-empty query, list_notes selects exactly the stored notes
\* whose current title or current content contains the query, the case of
\* letters ignored (a title changed by update_note counts with its new value);
\* with no query or the empty string it selects every stored note.
C13_Search ==
    \A t \in Threads : pc[t] = "list_notes:108" =>
        /\ frame[t].total = Cardinality(Selected(frame[t].q))
        /\ \A i \in 1..Len(frame[t].notes) : frame[t].notes[i] \in Selected(frame[t].q)
        /\ \A q \in {frame[t].q} \cup ListQueries :
              LET r == ListNotes(_notes, heap, q, 1, Len(_notes) + 1)
              IN  /\ {r.items[i] : i \in 1..Len(r.items)} = Selected(q)
                  /\ r.total = Cardinality(Selected(q))

\* A search for "k" finds, of two seeded notes, the one whose title
\* update_note has since changed to "oK".
C13_Witness ==
    \E t \in Threads :
        /\ pc[t] = "list_notes:108"
        /\ frame[t].q = Some(<<"k">>)
        /\ frame[t].total = 1
        /\ Len(_notes) = 2
        /\ Len(frame[t].notes) = 1
        /\ heap[frame[t].notes[1]].content = SampleContent(0)
        /\ heap[frame[t].notes[1]].title = <<"o", "K">>

\* Every page of the listing a call is part of, one after another; the page
\* the call itself computed stands at its place.
AllPages(f) ==
    LET last == LastPage(f.total, f.page_size)
    IN  IF f.page <= last
        THEN PagesFrom(f.q, f.page_size, 1, f.page - 1) \o f.notes
                \o PagesFrom(f.q, f.page_size, f.page + 1, last)
        ELSE PagesFrom(f.q, f.page_size, 1, last)

\* C14: list_notes returns the matching notes in insertion order: a note
\* created later (a later object, a higher id) comes after every note created
\* earlier, whatever update_note has done to either; so two calls with the
\* same query and no create, delete, seed or reset between them show the
\* notes in the same relative order.
C14_InsertionOrder ==
    \A t \in Threads : pc[t] = "list_notes:108" =>
        LET all == AllPages(frame[t])
        IN  \A i, j \in 1..Len(all) : i < j =>
                /\ all[i] < all[j]
                /\ heap[all[i]].id < heap[all[j]].id
                /\ heap[all[i]].created_at <= heap[all[j]].created_at

\* list_notes shows first the older of two notes, though update_note has
\* touched it after the younger was created.
C14_Witness ==
    \E t \in Threads :
        /\ pc[t] = "list_notes:108"
        /\ frame[t].q = None
        /\ frame[t].page = 1
        /\ Len(_notes) = 2
        /\ frame[t].notes = <<_notes[1].ref>>
        /\ heap[_notes[1].ref].updated_at > heap[_notes[2].ref].updated_at
        /\ heap[_notes[1].ref].id < heap[_notes[2].ref].id

(***************************************************************************)
(* Timestamps.                                                             *)
(***************************************************************************)
\* C15: with a clock whose readings never decrease, every stored note has
\* updated_at >= created_at in every reachable state, inside a call or not.
C15_UpdatedNotBeforeCreated ==
    \A i \in 1..Len(_notes) :
        heap[_notes[i].ref].updated_at >= heap[_notes[i].ref].created_at

\* A note updated at a later reading than its creation, beside a note that
\* was never updated.
C15_Witness ==
    /\ Unlocked
    /\ \E i, j \in 1..Len(_notes) :
          /\ heap[_notes[i].ref].updated_at > heap[_notes[i].ref].created_at
          /\ heap[_notes[j].ref].updated_at = heap[_notes[j].ref].created_at

(***************************************************************************)
(* seed.                                                                   *)
(***************************************************************************)
\* C16: seed(count), count >= 1, returns count after adding exactly count
\* notes, each by a create_note call: the i-th (i = 0 .. count-1) has the id
\* the counter held before the seed plus i, tags ["sample", "demo"] for even i
\* and ["notes"] for odd i; the notes stored before are unchanged.
C16_Seed ==
    \A t \in Threads : pc[t] = "seed:177" =>
        LET f == frame[t]
            before == f.seed_pre
            base == Len(before.heap)
        IN  /\ f.count >= 1
            /\ f.i = f.count
            /\ _notes = before.notes \o
                    [j \in 1..f.count |-> [k |-> before.next_id + j - 1, ref |-> base + j]]
            /\ _next_id = before.next_id + f.count
            /\ Len(heap) = base + f.count
            /\ \A i \in 0..(f.count - 1) :
                  LET n == heap[base + i + 1]
                  IN  /\ n.id = before.next_id + i
                      /\ n.tags = (IF i % 2 = 0 THEN Some(<<"sample", "demo">>)
                                   ELSE Some(<<"notes">>))
                      /\ n.created_at = n.updated_at
                      /\ issued[Len(issued) - f.count + i + 1] = n.id
            /\ \A r \in 1..base : heap[r] = before.heap[r]

\* seed(2) is about to return on a store that held a note and had handed out
\* more ids than it holds notes.
C16_Witness ==
    \E t \in Threads :
        /\ pc[t] = "seed:177"
        /\ frame[t].count = 2
        /\ frame[t].seed_pre.notes # <<>>
        /\ frame[t].seed_pre.next_id > Len(frame[t].seed_pre.notes) + 1

(***************************************************************************)
(* Ids that are not in the store.                                          *)
(***************************************************************************)
\* The store is as the call found it.
Untouched(f) ==
    /\ _notes = f.pre.notes
    /\ _next_id = f.pre.next_id
    /\ heap = f.pre.heap
    /\ clock = f.pre.clock

\* C17: for an id that is not in the store get_note and update_note return
\* None and delete_note returns False, and the store is left as it was: no
\* note added, removed or changed, no updated_at moved, the counter the same.
C17_NotFound ==
    \A t \in Threads :
        LET f == frame[t]
        IN  /\ pc[t] = "get_note:return" =>
                  /\ ~DictHas(f.pre.notes, f.note_id) => f.note = NullRef
                  /\ Untouched(f)
            /\ pc[t] \in {"update_note:141", "update_note:150", "update_note:152",
                           "update_note:154"} => DictHas(f.pre.notes, f.note_id)
            /\ pc[t] = "update_note:139" =>
                  ~DictHas(f.pre.notes, f.note_id) /\ Untouched(f)
            /\ pc[t] \in {"delete_note:161", "delete_note:162"} =>
                  DictHas(f.pre.notes, f.note_id)
            /\ pc[t] = "delete_note:163" =>
                  ~DictHas(f.pre.notes, f.note_id) /\ Untouched(f)

\* update_note is about to return None for an id deleted earlier, with
\* another note in the store.
C17_Witness ==
    \E t \in Threads :
        /\ pc[t] = "update_note:139"
        /\ frame[t].note_id \in deleted
        /\ _notes # <<>>

\* The thread is in seed, its create_note calls included.
InSeed(t) == frame[t].caller = "seed"

\* The thread is at a statement inside a `with self._lock:` block.
InsideLock(t) == pc[t] \notin ({"idle", "respond"} \cup EntryPoints)

\* C18: seed is atomic towards every other store operation: it holds the lock
\* across its whole loop, so no create, update, delete, list, get or reset of
\* another thread takes effect between two of its creates; the seeded notes
\* get consecutive ids, the notes stored before stay as they were, and a
\* list_notes of another thread runs before the first or after the last of
\* the seed's creates, seeing none or all of its notes.
C18_SeedAtomic ==
    \A t \in Threads : InSeed(t) =>
        LET f == frame[t]
            before == f.seed_pre
            n == Len(before.notes)
        IN  /\ _lock.owner = t
            /\ _lock.count >= 1
            /\ \A u \in Threads \ {t} : ~InsideLock(u)
            /\ Len(_notes) - n \in {f.i, f.i + 1}
            /\ \A j \in 1..Len(_notes) :
                  IF j <= n THEN _notes[j] = before.notes[j]
                  ELSE _notes[j].k = before.next_id + (j - n - 1)
            /\ \A r \in 1..Len(before.heap) : heap[r] = before.heap[r]
            /\ pc[t] = "seed:177" =>
                  /\ Len(_notes) = n + f.count
                  /\ _next_id = before.next_id + f.count

\* seed(2) has created its first note and not yet its second, while another
\* thread waits to list the notes.
C18_Witness ==
    \E t, u \in Threads :
        /\ t # u
        /\ pc[t] = "seed:169"
        /\ frame[t].count = 2
        /\ frame[t].i = 1
        /\ pc[u] = "list_notes:93"

(***************************************************************************)
(* Termination.                                                            *)
(***************************************************************************)
\* The thread's call has returned from the store, or it has none.
Returned(t) == pc[t] \in {"idle", "respond"}

\* C19: under a fair scheduler every invoked operation completes and gives
\* up the lock it took; inside seed the lock is already the thread's own when
\* create_note takes it again, so seed does not wait for itself; the lock is
\* free whenever every operation has returned; no operations deadlock.
C19_Termination ==
    /\ \A t \in Threads : (pc[t] # "idle") ~> (pc[t] = "idle")
    /\ \A t \in Threads : (_lock.owner = t) ~> (_lock.owner # t)
    /\ [](\A t \in Threads :
            InSeed(t) /\ pc[t] = "create_note:113" => _lock.owner = t /\ CanAcquire(_lock, t))
    /\ []((\A t \in Threads : Returned(t)) => Unlocked)

\* Inside seed, create_note holds the lock a second time while the other
\* worker waits to enter update_note.
C19_Witness ==
    \E t, u \in Threads :
        /\ t # u
        /\ InSeed(t)
        /\ pc[t] = "create_note:114"
        /\ _lock.count = 2
        /\ pc[u] = "update_note:136"

(***************************************************************************)
(* The dict and the counter.                                               *)
(***************************************************************************)
\* C20: whenever the lock is free, every key k of the dict maps to a note
\* whose id is k, every key is at least 1 and below _next_id, and _next_id is
\* 1 plus the number of notes created, by create_note or seed, since the last
\* reset; no statement but reset's `self._next_id = 1` lowers _next_id.
C20_DictAndCounter ==
    /\ [](Unlocked =>
            /\ \A i \in 1..Len(_notes) :
                  /\ heap[_notes[i].ref].id = _notes[i].k
                  /\ 1 <= _notes[i].k
                  /\ _notes[i].k < _next_id
            /\ \A i, j \in 1..Len(_notes) : i # j => _notes[i].k # _notes[j].k
            /\ _next_id = 1 + Len(issued))
    /\ [][_next_id' >= _next_id \/ \E t \in Threads : pc[t] = "reset:184"]_vars

\* With the lock free, the store holds the note created last and no longer
\* the first.
C20_Witness ==
    /\ Unlocked
    /\ DictHas(_notes, _next_id - 1)
    /\ ~DictHas(_notes, 1)
    /\ _next_id > 2
====
